---------------------------- MODULE Spec2Model ----------------------------
(***************************************************************************)
(* Model of scraper.py: the two fixture parsers (fetch_beitar_matches,     *)
(* fetch_hapoel_matches), the reconciler (deduplicate_matches) and main(). *)
(*                                                                         *)
(* Text is modelled as a sequence of Unicode code points, so that the      *)
(* substring tests, the regular expressions, str.split, int() and the      *)
(* ordering of strings are computed on characters as Python computes them. *)
(* A datetime is the number of minutes since 0001-01-01 00:00 on the       *)
(* wall clock: all datetimes of the program carry the same tzinfo object,  *)
(* and Python then compares and subtracts them on the wall clock.          *)
(* Python's lists are 0-based, the sequences here are 1-based.             *)
(***************************************************************************)
EXTENDS Integers, Sequences, FiniteSets, TLC

VARIABLES
    pc,           \* position in main(): "beitar", "hapoel", "dedup", "done", "failed";
                  \* "call", "done", "rerun_done" when deduplicate_matches is called alone
    now,          \* datetime.now(tz=ISRAEL_TZ) as read by the Beitar and by the Hapoel parser
    items,        \* the game_list_item blocks of the Beitar page
    lines,        \* the stripped non-empty text lines of the Hapoel page
    beitar,       \* result of fetch_beitar_matches()
    hapoel,       \* result of fetch_hapoel_matches()
    all_matches,  \* argument of deduplicate_matches
    matches,      \* result of deduplicate_matches
    again,        \* result of deduplicate_matches applied to its own result
    log,          \* per candidate that reached the time parsing: what was captured and built
    rows,         \* per date line reached by the Hapoel scan: the lines collected for it
    steps         \* per candidate of deduplicate_matches: unique before and after

vars == <<pc, now, items, lines, beitar, hapoel, all_matches, matches, again, log, rows, steps>>

-----------------------------------------------------------------------------
(* Program constants *)

DEFAULT_HOUR == 20

DEFAULT_MINUTE == 30

BEITAR_KW == <<1489, 1497, 1514>>

HAPOEL_JLM_KW == <<1492, 1508, 1493, 1506, 1500, 32, 1497, 1512, 1493, 1513, 1500, 1497, 1501>>

TEDDY_KW == <<1496, 1491, 1497>>

UPCOMING == <<1502, 1513, 1495, 1511, 1497, 1501, 32, 1511, 1512, 1493, 1489, 1497, 1501>>

H_TIME == <<1513, 1506, 1492>>

H_PITCH == <<1502, 1490, 1512, 1513>>

H_GUEST == <<1488, 1493, 1512, 1495, 1514>>

H_HOST == <<1502, 1488, 1512, 1495, 1514>>

H_DATE == <<1514, 1488, 1512, 1497, 1498>>

S_DONE == <<1502, 1513, 1495, 1511, 1497, 1501, 32, 1513, 1492, 1505, 1514, 1497, 1497, 1502, 1493>>

S_RESULT == <<1514, 1493, 1510, 1488, 1492>>

\* line 133: the column-header labels skipped after the section start
HeaderRow == {H_TIME, H_PITCH, H_GUEST, H_HOST, H_DATE}

\* line 143: the lines that end the scan as a new section
SectionStop == {S_DONE, H_TIME, S_RESULT}

\* line 146: the repeated headers that end the scan
FooterStop == {H_GUEST, H_HOST, H_DATE}

\* line 162: the lines that end the backward walk
BackStop == {H_TIME, H_PITCH, H_GUEST, H_HOST, H_DATE, UPCOMING}

VENUE == "Teddy Stadium"

-----------------------------------------------------------------------------
(* Text *)

IsDigit(c) == c \in 48..57

\* \s of the re module, on the characters the inputs hold
IsSpace(c) == c \in {32, 9, 10, 11, 12, 13}

\* kw in s (kw is not empty)
Contains(kw, s) ==
    \E p \in 1..(Len(s) - Len(kw) + 1) : SubSeq(s, p, p + Len(kw) - 1) = kw

\* s < t for str: by code point, a proper prefix first
RECURSIVE StrLess(_, _)
StrLess(s, t) ==
    IF t = <<>> THEN FALSE
    ELSE IF s = <<>> THEN TRUE
    ELSE IF s[1] # t[1] THEN s[1] < t[1]
    ELSE StrLess(Tail(s), Tail(t))

\* s.split(":")
RECURSIVE Split(_, _)
Split(s, sep) ==
    IF \A k \in 1..Len(s) : s[k] # sep THEN <<s>>
    ELSE LET p == CHOOSE k \in 1..Len(s) : s[k] = sep /\ \A q \in 1..(k - 1) : s[q] # sep
         IN  <<SubSeq(s, 1, p - 1)>> \o Split(SubSeq(s, p + 1, Len(s)), sep)

\* int(s) succeeds: on the inputs drawn here (no sign, no blank, no underscore)
\* exactly the non-empty digit strings
IntParses(s) == Len(s) > 0 /\ \A k \in 1..Len(s) : IsDigit(s[k])

RECURSIVE IntOf(_)
IntOf(s) ==
    IF s = <<>> THEN 0 ELSE IntOf(SubSeq(s, 1, Len(s) - 1)) * 10 + (s[Len(s)] - 48)

-----------------------------------------------------------------------------
(* datetime *)

IsLeap(y) == (y % 4 = 0) /\ ((y % 100 # 0) \/ (y % 400 = 0))

DaysInMonth(y, m) ==
    IF m = 2 THEN (IF IsLeap(y) THEN 29 ELSE 28)
    ELSE IF m \in {4, 6, 9, 11} THEN 30 ELSE 31

RECURSIVE DaysBeforeMonth(_, _)
DaysBeforeMonth(y, m) ==
    IF m <= 1 THEN 0 ELSE DaysBeforeMonth(y, m - 1) + DaysInMonth(y, m - 1)

DaysBeforeYear(y) ==
    (y - 1) * 365 + ((y - 1) \div 4) - ((y - 1) \div 100) + ((y - 1) \div 400)

\* datetime(y, m, d, h, mi, tzinfo=ISRAEL_TZ) raises ValueError out of range
ValidDatetime(y, m, d, h, mi) ==
    /\ y \in 1..9999
    /\ m \in 1..12
    /\ d >= 1 /\ d <= DaysInMonth(y, m)
    /\ h \in 0..23
    /\ mi \in 0..59

Minutes(y, m, d, h, mi) ==
    (DaysBeforeYear(y) + DaysBeforeMonth(y, m) + d - 1) * 1440 + h * 60 + mi

\* [ok, val]: ok = FALSE is the ValueError of the constructor
MakeDatetime(y, m, d, h, mi) ==
    IF ValidDatetime(y, m, d, h, mi)
    THEN [ok |-> TRUE, val |-> Minutes(y, m, d, h, mi)]
    ELSE [ok |-> FALSE, val |-> 0]

\* match_dt < now (lines 90, 195): match_dt is on a whole minute, now has
\* seconds and microseconds (frac: they are not all zero)
BeforeNow(dt, n) == dt < n.minute \/ (dt = n.minute /\ n.frac)

HourOf(dt) == (dt % 1440) \div 60

MinuteOf(dt) == dt % 60

\* the hour replaced and the minute left as captured
NormalizeTimeKeepMinute(hour, minute) ==
    IF hour < 10 THEN <<DEFAULT_HOUR, minute>> ELSE <<hour, minute>>

\* lines 83-84, 187-188: an hour below 10 is a placeholder
NormalizeTime(hour, minute) ==
    IF hour < 10 THEN <<DEFAULT_HOUR, DEFAULT_MINUTE>> ELSE <<hour, minute>>

Fixture(home, away, dt, src) ==
    [home_team |-> home, away_team |-> away, datetime |-> dt,
     venue |-> VENUE, source |-> src]

-----------------------------------------------------------------------------
(* deduplicate_matches *)

\* sorted(key=datetime): stable
RECURSIVE InsertByDatetime(_, _)
InsertByDatetime(s, m) ==
    IF s = <<>> THEN <<m>>
    ELSE IF s[Len(s)].datetime <= m.datetime THEN Append(s, m)
    ELSE Append(InsertByDatetime(SubSeq(s, 1, Len(s) - 1), m), s[Len(s)])

RECURSIVE SortByDatetime(_)
SortByDatetime(s) ==
    IF s = <<>> THEN <<>>
    ELSE InsertByDatetime(SortByDatetime(SubSeq(s, 1, Len(s) - 1)), s[Len(s)])

\* line 236 without the sort
FinalSortMissing(unique) == unique

\* line 236
FinalSort(unique) == SortByDatetime(unique)

\* tuple(sorted([home_team, away_team]))
TeamsKey(m) ==
    IF StrLess(m.away_team, m.home_team)
    THEN <<m.away_team, m.home_team>>
    ELSE <<m.home_team, m.away_team>>

\* (a - b).days: timedelta keeps 0 <= seconds < 86400, so days is the floor
DeltaDays(a, b) == (a - b) \div 1440

AbsInt(x) == IF x < 0 THEN -x ELSE x

\* the window one day short
IsDuplicateWithin2(m, existing) ==
    /\ TeamsKey(m) = TeamsKey(existing)
    /\ AbsInt(DeltaDays(m.datetime, existing.datetime)) <= 2

\* line 225
IsDuplicate(m, existing) ==
    /\ TeamsKey(m) = TeamsKey(existing)
    /\ AbsInt(DeltaDays(m.datetime, existing.datetime)) <= 3

\* the first j of the inner loop at which line 225 holds, 0 if none
FirstDuplicate(unique, m) ==
    IF \E j \in 1..Len(unique) : IsDuplicate(m, unique[j])
    THEN CHOOSE j \in 1..Len(unique) :
            /\ IsDuplicate(m, unique[j])
            /\ \A k \in 1..(j - 1) : ~IsDuplicate(m, unique[k])
    ELSE 0

\* the accepted entry always kept
TieBreakFirstSeen(existing, m) == existing

\* lines 227-231: what stands at unique[j] after the duplicate m was seen
TieBreak(existing, m) ==
    LET home_is_hapoel == Contains(HAPOEL_JLM_KW, existing.home_team)
    IN  IF home_is_hapoel /\ m.source = "hapoel" THEN m
        ELSE IF ~home_is_hapoel /\ m.source = "beitar" THEN m
        ELSE existing

\* lines 220-235: one iteration of the outer loop
DedupStep(unique, m) ==
    LET j == FirstDuplicate(unique, m)
    IN  IF j = 0 THEN Append(unique, m)
        ELSE [unique EXCEPT ![j] = TieBreak(unique[j], m)]

RECURSIVE DedupLoop(_, _)
DedupLoop(sorted_matches, k) ==
    IF k = 0 THEN <<>>
    ELSE DedupStep(DedupLoop(sorted_matches, k - 1), sorted_matches[k])

deduplicate_matches(ms) ==
    LET sorted_matches == SortByDatetime(ms)
    IN  FinalSort(DedupLoop(sorted_matches, Len(sorted_matches)))

\* the iterations of the outer loop: the candidate, unique before and after, and j
DedupSteps(ms) ==
    LET sorted_matches == SortByDatetime(ms)
    IN  [k \in 1..Len(sorted_matches) |->
            [m      |-> sorted_matches[k],
             before |-> DedupLoop(sorted_matches, k - 1),
             after  |-> DedupLoop(sorted_matches, k),
             j      |-> FirstDuplicate(DedupLoop(sorted_matches, k - 1), sorted_matches[k])]]

-----------------------------------------------------------------------------
(* What both parsers record of a candidate that reached the time parsing *)

Entry(src, home, away, time_str, raised, dt, kept) ==
    [source |-> src, home_team |-> home, away_team |-> away,
     time_str |-> time_str, raised |-> raised, datetime |-> dt, kept |-> kept]

NoEntry == Entry("none", <<>>, <<>>, <<>>, FALSE, 0, FALSE)

Outcome(kind, entry) == [kind |-> kind, entry |-> entry]

EmptyResult == [raised |-> FALSE, matches |-> <<>>, log |-> <<>>, rows |-> <<>>]

\* matches.append / continue / the exception leaving the function
Collect(acc, o, src) ==
    CASE o.kind = "skip"  -> acc
      [] o.kind = "raise" -> [acc EXCEPT !.raised = TRUE, !.log = Append(@, o.entry)]
      [] o.kind = "drop"  -> [acc EXCEPT !.log = Append(@, o.entry)]
      [] o.kind = "emit"  ->
            [acc EXCEPT !.log = Append(@, o.entry),
                        !.matches = Append(@, Fixture(o.entry.home_team, o.entry.away_team,
                                                      o.entry.datetime, src))]

\* lines 67-68, 175-176
IsDerby(home, away) ==
    \/ Contains(BEITAR_KW, home) /\ Contains(HAPOEL_JLM_KW, away)
    \/ Contains(HAPOEL_JLM_KW, home) /\ Contains(BEITAR_KW, away)

-----------------------------------------------------------------------------
(* fetch_beitar_matches *)

\* \d{2}/\d{2}/\d{2} at p
ShortDateAt(s, p) ==
    /\ p + 7 <= Len(s)
    /\ IsDigit(s[p]) /\ IsDigit(s[p + 1]) /\ s[p + 2] = 47
    /\ IsDigit(s[p + 3]) /\ IsDigit(s[p + 4]) /\ s[p + 5] = 47
    /\ IsDigit(s[p + 6]) /\ IsDigit(s[p + 7])

\* \d{2}:\d{2} at p
ClockAt(s, p) ==
    /\ p + 4 <= Len(s)
    /\ IsDigit(s[p]) /\ IsDigit(s[p + 1]) /\ s[p + 2] = 58
    /\ IsDigit(s[p + 3]) /\ IsDigit(s[p + 4])

\* \s* from q: the first position that holds no blank
RECURSIVE SkipSpace(_, _)
SkipSpace(s, q) ==
    IF q <= Len(s) /\ IsSpace(s[q]) THEN SkipSpace(s, q + 1) ELSE q

\* where the arrow of a token that starts at p stands
ArrowPos(s, p) == SkipSpace(s, p + 8)

\* (\d{2}/\d{2}/\d{2})\s*->\s*(\d{2}:\d{2}) at p
InfoTokenAt(s, p) ==
    /\ ShortDateAt(s, p)
    /\ ArrowPos(s, p) + 1 <= Len(s)
    /\ s[ArrowPos(s, p)] = 45 /\ s[ArrowPos(s, p) + 1] = 62
    /\ ClockAt(s, SkipSpace(s, ArrowPos(s, p) + 2))

\* re.search of line 75: the leftmost match and its two groups
SearchInfo(s) ==
    IF \E p \in 1..Len(s) : InfoTokenAt(s, p)
    THEN LET p == CHOOSE q \in 1..Len(s) :
                    InfoTokenAt(s, q) /\ \A r \in 1..(q - 1) : ~InfoTokenAt(s, r)
             t == SkipSpace(s, ArrowPos(s, p) + 2)
         IN  [found |-> TRUE, date_part |-> SubSeq(s, p, p + 7),
              time_part |-> SubSeq(s, t, t + 4)]
    ELSE [found |-> FALSE, date_part |-> <<>>, time_part |-> <<>>]

\* x.get_text(strip=True) if x else ""
TextOf(div) == IF div.has THEN div.text ELSE <<>>

\* lines 56-99: one iteration of the loop over the game_list_item blocks
BeitarItem(item, n) ==
    IF ~item.teams THEN Outcome("skip", NoEntry)
    ELSE
    LET home_name == TextOf(item.home)
        away_name == TextOf(item.away)
        is_beitar_home == Contains(BEITAR_KW, home_name)
        is_derby == IsDerby(home_name, away_name)
        date_match == SearchInfo(TextOf(item.info))
    IN  IF ~is_beitar_home /\ ~is_derby THEN Outcome("skip", NoEntry)
        ELSE IF ~date_match.found THEN Outcome("skip", NoEntry)
        ELSE
        LET dmy == Split(date_match.date_part, 47)
            hm == Split(date_match.time_part, 58)
            t == NormalizeTime(IntOf(hm[1]), IntOf(hm[2]))
            match_dt == MakeDatetime(2000 + IntOf(dmy[3]), IntOf(dmy[2]), IntOf(dmy[1]),
                                     t[1], t[2])
        IN  IF ~match_dt.ok
            THEN Outcome("raise", Entry("beitar", home_name, away_name,
                                        date_match.time_part, TRUE, 0, FALSE))
            ELSE IF BeforeNow(match_dt.val, n)
            THEN Outcome("drop", Entry("beitar", home_name, away_name,
                                       date_match.time_part, FALSE, match_dt.val, FALSE))
            ELSE Outcome("emit", Entry("beitar", home_name, away_name,
                                       date_match.time_part, FALSE, match_dt.val, TRUE))

RECURSIVE BeitarLoop(_, _, _)
BeitarLoop(its, k, n) ==
    IF k = 0 THEN EmptyResult
    ELSE LET acc == BeitarLoop(its, k - 1, n)
         IN  IF acc.raised THEN acc ELSE Collect(acc, BeitarItem(its[k], n), "beitar")

\* lines 48-101, on the parsed page
fetch_beitar_matches(its, n) == BeitarLoop(its, Len(its), n)

-----------------------------------------------------------------------------
(* fetch_hapoel_matches *)

\* re.match(r"(\d{2}/\d{2}/\d{4})$", line): the lines hold no line break
IsDateLine(s) ==
    /\ Len(s) = 10
    /\ IsDigit(s[1]) /\ IsDigit(s[2]) /\ s[3] = 47
    /\ IsDigit(s[4]) /\ IsDigit(s[5]) /\ s[6] = 47
    /\ IsDigit(s[7]) /\ IsDigit(s[8]) /\ IsDigit(s[9]) /\ IsDigit(s[10])

\* re.match(r"\d{2}:\d{2}", time_str): a match at the start, anything after it
ClockPrefix(s) == ClockAt(s, 1)

\* the walk that does not stop at the date line of the row before
RECURSIVE BackWalkThroughDates(_, _, _, _)
BackWalkThroughDates(ls, start_idx, j, preceding) ==
    IF j >= start_idx /\ Len(preceding) < 4
    THEN IF ls[j] \in BackStop THEN preceding
         ELSE BackWalkThroughDates(ls, start_idx, j - 1, <<ls[j]>> \o preceding)
    ELSE preceding

\* lines 158-165: the loop that collects the lines before a date line
RECURSIVE BackWalk(_, _, _, _)
BackWalk(ls, start_idx, j, preceding) ==
    IF j >= start_idx /\ Len(preceding) < 4
    THEN IF IsDateLine(ls[j]) THEN preceding
         ELSE IF ls[j] \in BackStop THEN preceding
         ELSE BackWalk(ls, start_idx, j - 1, <<ls[j]>> \o preceding)
    ELSE preceding

\* preceding[-k] if len(preceding) >= k else ""
FromEnd(preceding, k) ==
    IF Len(preceding) >= k THEN preceding[Len(preceding) + 1 - k] ELSE <<>>

\* lines 156-170: the fields of the record that ends at the date line i
RowAt(ls, start_idx, i) ==
    LET preceding == BackWalk(ls, start_idx, i - 1, <<>>)
    IN  [i |-> i, preceding |-> preceding,
         home_team |-> FromEnd(preceding, 1), guest_team |-> FromEnd(preceding, 2),
         venue |-> FromEnd(preceding, 3), time_str |-> FromEnd(preceding, 4)]

\* lines 182-185: [ok, hour, minute]; ok = FALSE is the ValueError of int() or of
\* the unpacking of a split that has not two parts
ParseClock(time_str) ==
    IF time_str # <<>> /\ ClockPrefix(time_str)
    THEN LET parts == Split(time_str, 58)
         IN  IF Len(parts) = 2 /\ IntParses(parts[1]) /\ IntParses(parts[2])
             THEN [ok |-> TRUE, hour |-> IntOf(parts[1]), minute |-> IntOf(parts[2])]
             ELSE [ok |-> FALSE, hour |-> 0, minute |-> 0]
    ELSE [ok |-> TRUE, hour |-> DEFAULT_HOUR, minute |-> DEFAULT_MINUTE]

\* lines 151-205: the body of the loop at a date line
HapoelRow(ls, start_idx, i, n) ==
    LET row == RowAt(ls, start_idx, i)
        is_hapoel_home == Contains(HAPOEL_JLM_KW, row.home_team)
        is_teddy == Contains(TEDDY_KW, row.venue)
        is_derby == IsDerby(row.home_team, row.guest_team)
        dmy == Split(ls[i], 47)
        clock == ParseClock(row.time_str)
        t == NormalizeTime(clock.hour, clock.minute)
        match_dt == MakeDatetime(IntOf(dmy[3]), IntOf(dmy[2]), IntOf(dmy[1]), t[1], t[2])
        entry(raised, dt, kept) ==
            Entry("hapoel", row.home_team, row.guest_team, row.time_str, raised, dt, kept)
    IN  IF ~((is_hapoel_home /\ is_teddy) \/ is_derby) THEN Outcome("skip", NoEntry)
        ELSE IF ~clock.ok THEN Outcome("raise", entry(TRUE, 0, FALSE))
        ELSE IF ~match_dt.ok THEN Outcome("raise", entry(TRUE, 0, FALSE))
        ELSE IF BeforeNow(match_dt.val, n) THEN Outcome("drop", entry(FALSE, match_dt.val, FALSE))
        ELSE Outcome("emit", entry(FALSE, match_dt.val, TRUE))

\* lines 139-207: the scan from line i on
RECURSIVE HapoelScan(_, _, _, _, _)
HapoelScan(ls, start_idx, i, n, acc) ==
    IF i > Len(ls) THEN acc
    ELSE IF ls[i] \in SectionStop THEN acc
    ELSE IF ls[i] \in FooterStop THEN acc
    ELSE IF IsDateLine(ls[i])
    THEN LET seen == [acc EXCEPT !.rows = Append(@, RowAt(ls, start_idx, i))]
             next == Collect(seen, HapoelRow(ls, start_idx, i, n), "hapoel")
         IN  IF next.raised THEN next ELSE HapoelScan(ls, start_idx, i + 1, n, next)
    ELSE HapoelScan(ls, start_idx, i + 1, n, acc)

\* lines 132-134
RECURSIVE SkipHeaderRow(_, _)
SkipHeaderRow(ls, i) ==
    IF i <= Len(ls) /\ ls[i] \in HeaderRow THEN SkipHeaderRow(ls, i + 1) ELSE i

\* lines 121-209, on the flattened page
fetch_hapoel_matches(ls, n) ==
    IF \A k \in 1..Len(ls) : ls[k] # UPCOMING THEN EmptyResult
    ELSE LET start_idx == CHOOSE k \in 1..Len(ls) :
                              ls[k] = UPCOMING /\ \A q \in 1..(k - 1) : ls[q] # UPCOMING
         IN  HapoelScan(ls, start_idx, SkipHeaderRow(ls, start_idx + 1), n, EmptyResult)

-----------------------------------------------------------------------------
(* The inputs the model draws *)

MaxItems == 2

MaxLines == 6

MaxMatches == 3

BeitarName == <<1489, 1497, 1514, 34, 1512, 32, 1497, 1512, 1493, 1513, 1500, 1497, 1501>>

HapoelName == <<1492, 1508, 1493, 1506, 1500, 32, 1497, 1512, 1493, 1513, 1500, 1497, 1501>>

OtherName == <<1502, 1499, 1489, 1497, 32, 1495, 1497, 1508, 1492>>

TeddyVenue == <<1496, 1491, 1497>>

OtherVenue == <<1489, 1500, 1493, 1502, 1508, 1497, 1500, 1491>>

TeamNames == {BeitarName, HapoelName, OtherName}

\* "01/03/2030", "02/03/2030", "01/03/2020"
DateLines ==
    {<<48, 49, 47, 48, 51, 47, 50, 48, 51, 48>>,
     <<48, 50, 47, 48, 51, 47, 50, 48, 51, 48>>,
     <<48, 49, 47, 48, 51, 47, 50, 48, 50, 48>>}

DateLine1 == <<48, 49, 47, 48, 51, 47, 50, 48, 51, 48>>

\* "01/03/30", "01/03/20"
ShortDates == {<<48, 49, 47, 48, 51, 47, 51, 48>>, <<48, 49, 47, 48, 51, 47, 50, 48>>}

\* "19:00", "01:59", "25:00", "19:99"
Clocks ==
    {<<49, 57, 58, 48, 48>>, <<48, 49, 58, 53, 57>>,
     <<50, 53, 58, 48, 48>>, <<49, 57, 58, 57, 57>>}

Clock19 == <<49, 57, 58, 48, 48>>

\* "19:30x", "19:30:00": a time followed by more characters
TrailingClocks == {<<49, 57, 58, 51, 48, 120>>, <<49, 57, 58, 51, 48, 58, 48, 48>>}

\* the game_info text "32 DD/MM/YY -> HH:MM"
InfoText(date, clock) == <<51, 50, 32>> \o date \o <<32, 45, 62, 32>> \o clock

Div(text) == [has |-> TRUE, text |-> text]

NoDiv == [has |-> FALSE, text |-> <<>>]

Item(home, away, info) == [teams |-> TRUE, home |-> home, away |-> away, info |-> info]

NameDivs == {NoDiv} \cup {Div(t) : t \in TeamNames}

\* blocks that vary the two name elements, and blocks that vary the info field
ItemVocab ==
    {[teams |-> FALSE, home |-> NoDiv, away |-> NoDiv, info |-> NoDiv]}
    \cup {Item(h, a, Div(InfoText(<<48, 49, 47, 48, 51, 47, 51, 48>>, Clock19))) :
            h \in NameDivs, a \in NameDivs}
    \cup {Item(Div(BeitarName), Div(OtherName), i) :
            i \in {NoDiv, Div(<<84, 66, 68>>)}
                  \cup {Div(InfoText(d, c)) : d \in ShortDates, c \in Clocks}}

SeqsUpTo(S, n) == UNION {[1..k -> S] : k \in 0..n}

\* the lines a scan can tell apart after the section start: a header label it walks
\* over, a header label that ends it, a date line, and two team names
BodyVocab == {H_PITCH, H_TIME, DateLine1, HapoelName, BeitarName}

FreeLines == {<<UPCOMING>> \o b : b \in SeqsUpTo(BodyVocab, MaxLines)}

\* pages with lines before the section start, and pages without a section start
PrefixedLines ==
    {<<x, y>> \o m \o b : x \in {HapoelName, BeitarName}, y \in {HapoelName, BeitarName},
                          m \in {<<>>, <<UPCOMING>>},
                          b \in SeqsUpTo(BodyVocab \cup {S_RESULT}, 2)}

\* the fields of one row: guest and home, with a venue, with a time before the venue
RowFields ==
    {<<g, h>> : g \in TeamNames, h \in TeamNames}
    \cup {<<v, g, h>> : v \in {TeddyVenue, OtherVenue}, g \in TeamNames, h \in TeamNames}
    \cup {<<c, v, g, h>> : c \in Clocks \cup TrailingClocks, v \in {TeddyVenue, OtherVenue},
                           g \in TeamNames, h \in TeamNames}

\* the page as the site lays it out: section start, header row, one row, next section
RowLines ==
    {<<UPCOMING, H_TIME, H_PITCH, H_GUEST, H_HOST, H_DATE>> \o f \o <<d, S_DONE>> :
        f \in RowFields, d \in DateLines}

\* 2026-11-02 09:00:12, and 2030-03-01 20:30:00.000000
EarlyNow == [minute |-> Minutes(2026, 11, 2, 9, 0), frac |-> TRUE]

KickoffNow == [minute |-> Minutes(2030, 3, 1, 20, 30), frac |-> FALSE]

Nows == {EarlyNow, KickoffNow}

\* the kickoffs of the lists handed to deduplicate_matches alone: 2030-03-01 10:00,
\* and 1 day, 3 days 12 hours, 4 days and 7 days after it
Kickoffs ==
    {Minutes(2030, 3, 1, 10, 0), Minutes(2030, 3, 2, 10, 0),
     Minutes(2030, 3, 4, 22, 0), Minutes(2030, 3, 5, 10, 0), Minutes(2030, 3, 8, 10, 0)}

Pairings == {<<BeitarName, HapoelName>>, <<HapoelName, BeitarName>>, <<OtherName, BeitarName>>}

Candidates ==
    {Fixture(p[1], p[2], k, s) : p \in Pairings, k \in Kickoffs, s \in {"beitar", "hapoel"}}

-----------------------------------------------------------------------------
(* main() *)

Blank ==
    /\ beitar = <<>> /\ hapoel = <<>> /\ matches = <<>>
    /\ again = <<>> /\ log = <<>> /\ rows = <<>> /\ steps = <<>>

\* the two pages and the two readings of the clock (lines 49, 122)
Init ==
    /\ pc = "beitar"
    /\ Blank
    /\ all_matches = <<>>
    /\ \/ /\ items \in SeqsUpTo(ItemVocab, MaxItems)
          /\ lines = <<>>
          /\ now \in {<<n, n>> : n \in Nows}
       \/ /\ items = <<>>
          /\ lines \in FreeLines \cup PrefixedLines
          /\ now = <<EarlyNow, EarlyNow>>
       \/ /\ items = <<>>
          /\ lines \in RowLines
          /\ now \in {<<n, n>> : n \in Nows}
       \/ /\ items \in {<<Item(Div(h), Div(a), Div(InfoText(<<48, 49, 47, 48, 51, 47, 51, 48>>, Clock19)))>> :
                            h \in {BeitarName, HapoelName}, a \in TeamNames}
          /\ lines \in {l \in RowLines : Len(l) = 10 \/ l[7] \in {Clock19, <<48, 49, 58, 53, 57>>}}
          /\ now \in {<<EarlyNow, EarlyNow>>, <<EarlyNow, KickoffNow>>}

\* line 275
FetchBeitar ==
    /\ pc = "beitar"
    /\ LET r == fetch_beitar_matches(items, now[1])
       IN  /\ pc' = IF r.raised THEN "failed" ELSE "hapoel"
           /\ beitar' = IF r.raised THEN <<>> ELSE r.matches
           /\ log' = log \o r.log
    /\ UNCHANGED <<now, items, lines, hapoel, all_matches, matches, again, rows, steps>>

\* line 279
FetchHapoel ==
    /\ pc = "hapoel"
    /\ LET r == fetch_hapoel_matches(lines, now[2])
       IN  /\ pc' = IF r.raised THEN "failed" ELSE "dedup"
           /\ hapoel' = IF r.raised THEN <<>> ELSE r.matches
           /\ log' = log \o r.log
           /\ rows' = r.rows
    /\ UNCHANGED <<now, items, lines, beitar, all_matches, matches, again, steps>>

\* line 282
Deduplicate ==
    /\ pc = "dedup"
    /\ all_matches' = beitar \o hapoel
    /\ matches' = deduplicate_matches(beitar \o hapoel)
    /\ steps' = DedupSteps(beitar \o hapoel)
    /\ pc' = "done"
    /\ UNCHANGED <<now, items, lines, beitar, hapoel, again, log, rows>>

Next == FetchBeitar \/ FetchHapoel \/ Deduplicate

Spec == Init /\ [][Next]_vars

-----------------------------------------------------------------------------
(* deduplicate_matches on any list, and on its own result *)

InitDedup ==
    /\ pc = "call"
    /\ Blank
    /\ all_matches \in SeqsUpTo(Candidates, MaxMatches)
    /\ items = <<>> /\ lines = <<>> /\ now = <<EarlyNow, EarlyNow>>

DeduplicateList ==
    /\ pc = "call"
    /\ matches' = deduplicate_matches(all_matches)
    /\ steps' = DedupSteps(all_matches)
    /\ pc' = "done"
    /\ UNCHANGED <<now, items, lines, beitar, hapoel, all_matches, again, log, rows>>

DeduplicateAgain ==
    /\ pc = "done"
    /\ again' = deduplicate_matches(matches)
    /\ pc' = "rerun_done"
    /\ UNCHANGED <<now, items, lines, beitar, hapoel, all_matches, matches, log, rows, steps>>

NextDedup == DeduplicateList \/ DeduplicateAgain

SpecDedup == InitDedup /\ [][NextDedup]_vars

-----------------------------------------------------------------------------
(* Properties *)

\* the unordered pair of team names
SameTeams(a, b) == {a.home_team, a.away_team} = {b.home_team, b.away_team}

\* the two kickoffs are at most 3 days (3 * 1440 minutes) apart
Within3Days(a, b) == AbsInt(a.datetime - b.datetime) <= 3 * 1440

Returned == pc \in {"done", "rerun_done"}

\* the step replaced the accepted entry by another record
Replaced(st) == st.j > 0 /\ st.after # st.before

\* C1: the list deduplicate_matches returns holds no two records with the same
\* unordered team pair and kickoffs at most 3 days apart, whatever their positions.
C1_NoDuplicateSurvivors ==
    Returned =>
        \A i \in 1..Len(matches) : \A j \in 1..Len(matches) :
            i < j => ~(SameTeams(matches[i], matches[j]) /\ Within3Days(matches[i], matches[j]))

\* three candidates, one of which replaced an accepted entry, and two survivors
C1_Witness ==
    /\ Returned
    /\ Len(all_matches) = 3 /\ Len(matches) = 2
    /\ \E k \in DOMAIN steps : Replaced(steps[k])

\* C3: a candidate is treated as a duplicate exactly when an accepted entry has
\* the same unordered team pair and a kickoff at most 3 days from its own; any
\* other candidate is appended as a separate fixture.
C3_DuplicateIffWithin3Days ==
    \A k \in DOMAIN steps :
        LET st == steps[k]
            near == \E q \in 1..Len(st.before) :
                        SameTeams(st.m, st.before[q]) /\ Within3Days(st.m, st.before[q])
        IN  /\ (st.j > 0) <=> near
            /\ ~near => st.after = Append(st.before, st.m)

\* what the claim names as the rule of replacement
ClaimedPreference(e, m) ==
    \/ Contains(HAPOEL_JLM_KW, e.home_team) /\ m.source = "hapoel"
    \/ Contains(BEITAR_KW, e.home_team) /\ m.source = "beitar"

\* the rule of replacement with any home team that is not Hapoel Jerusalem counted
\* as Beitar's
HapoelHomePreference(e, m) ==
    \/ Contains(HAPOEL_JLM_KW, e.home_team) /\ m.source = "hapoel"
    \/ ~Contains(HAPOEL_JLM_KW, e.home_team) /\ m.source = "beitar"

\* two reports of one fixture from the two sources, with the same home team
TwoReports ==
    /\ Len(all_matches) = 2 /\ Len(matches) = 1
    /\ all_matches[1].source # all_matches[2].source
    /\ all_matches[1].home_team = all_matches[2].home_team
    /\ all_matches[1].away_team = all_matches[2].away_team

\* C4 as claimed: a duplicate m of the accepted entry e replaces e if e's home team
\* holds the Hapoel keyword and m is from the Hapoel source, or e's home team holds
\* the Beitar keyword and m is from the Beitar source; otherwise the accepted list
\* stays as it is. Of two reports from the two sources with the same home team the
\* one from the home team's own source survives.
C4_TieBreakAsClaimed ==
    Returned =>
        /\ \A k \in DOMAIN steps :
              LET st == steps[k]
              IN  st.j > 0 =>
                    st.after = IF ClaimedPreference(st.before[st.j], st.m)
                               THEN [st.before EXCEPT ![st.j] = st.m]
                               ELSE st.before
        /\ TwoReports =>
              /\ Contains(HAPOEL_JLM_KW, matches[1].home_team) => matches[1].source = "hapoel"
              /\ Contains(BEITAR_KW, matches[1].home_team) => matches[1].source = "beitar"

\* C4 as amended: a duplicate m of the accepted entry e replaces e if e's home team
\* holds the Hapoel keyword and m is from the Hapoel source, or e's home team does
\* not hold the Hapoel keyword and m is from the Beitar source; otherwise the
\* accepted list stays as it is. Of two reports from the two sources with the same
\* home team the Hapoel one survives if the home team holds the Hapoel keyword and
\* the Beitar one otherwise.
C4_TieBreakByHapoelHome ==
    Returned =>
        /\ \A k \in DOMAIN steps :
              LET st == steps[k]
              IN  st.j > 0 =>
                    st.after = IF HapoelHomePreference(st.before[st.j], st.m)
                               THEN [st.before EXCEPT ![st.j] = st.m]
                               ELSE st.before
        /\ TwoReports =>
              matches[1].source =
                  IF Contains(HAPOEL_JLM_KW, matches[1].home_team) THEN "hapoel" ELSE "beitar"

\* one duplicate replaced an entry whose home team holds neither keyword, and a
\* later duplicate was dropped
C4_Witness ==
    /\ Returned
    /\ \E k \in DOMAIN steps :
          /\ Replaced(steps[k])
          /\ ~Contains(HAPOEL_JLM_KW, steps[k].before[steps[k].j].home_team)
          /\ ~Contains(BEITAR_KW, steps[k].before[steps[k].j].home_team)
    /\ \E k \in DOMAIN steps :
          /\ steps[k].j > 0
          /\ steps[k].after = steps[k].before
          /\ steps[k].m # steps[k].before[steps[k].j]

\* C5: deduplicate_matches applied to its own result returns that result, the same
\* records in the same order.
C5_Idempotent == pc = "rerun_done" => again = matches

\* the first call collapsed duplicates by a replacement and returned two records
C5_Witness ==
    /\ pc = "rerun_done"
    /\ Len(matches) = 2 /\ Len(all_matches) = 3
    /\ \E k \in DOMAIN steps : Replaced(steps[k])
    /\ matches # all_matches

\* C10: for every candidate of the input the returned list holds a record with the
\* same unordered team pair and a kickoff within 3 days of the candidate's.
C10_NoMatchLost ==
    Returned =>
        \A k \in 1..Len(all_matches) : \E q \in 1..Len(matches) :
            SameTeams(all_matches[k], matches[q]) /\ Within3Days(all_matches[k], matches[q])

\* C2: every fixture the two parsers emit, and every fixture of the reconciled
\* list, has a kickoff strictly after the now its parser captured.
C2_KickoffStrictlyAfterNow ==
    /\ \A k \in 1..Len(beitar) : beitar[k].datetime > now[1].minute
    /\ \A k \in 1..Len(hapoel) : hapoel[k].datetime > now[2].minute
    /\ \A k \in 1..Len(matches) :
          matches[k].datetime > (IF matches[k].source = "beitar" THEN now[1] ELSE now[2]).minute

\* a captured time of the form HH:MM
WellFormedClock(ts) ==
    /\ Len(ts) = 5
    /\ IsDigit(ts[1]) /\ IsDigit(ts[2]) /\ ts[3] = 58 /\ IsDigit(ts[4]) /\ IsDigit(ts[5])

ClockHour(ts) == (ts[1] - 48) * 10 + (ts[2] - 48)

ClockMinute(ts) == (ts[4] - 48) * 10 + (ts[5] - 48)

ValidClock(ts) == WellFormedClock(ts) /\ ClockHour(ts) <= 23 /\ ClockMinute(ts) <= 59

TimeOfDay(dt) == <<HourOf(dt), MinuteOf(dt)>>

\* the fixtures a parser emitted, as its log has them
Kept(src) ==
    LET kept == SelectSeq(log, LAMBDA e : e.kept /\ e.source = src)
    IN  [k \in 1..Len(kept) |->
            Fixture(kept[k].home_team, kept[k].away_team, kept[k].datetime, src)]

\* C6: in both parsers a captured well-formed HH:MM with a valid hour and minute
\* gives the kickoff 20:30 if the hour is below 10 and is kept as captured if the
\* hour is 10 or above; a Hapoel record with no time slot gets 20:30; and these
\* kickoffs are the ones of the emitted fixtures.
C6_TimeCoercion ==
    /\ \A k \in DOMAIN log :
          LET e == log[k]
          IN  /\ (~e.raised /\ ValidClock(e.time_str)) =>
                    TimeOfDay(e.datetime) =
                        IF ClockHour(e.time_str) < 10 THEN <<20, 30>>
                        ELSE <<ClockHour(e.time_str), ClockMinute(e.time_str)>>
              /\ (~e.raised /\ e.source = "hapoel" /\ e.time_str = <<>>) =>
                    TimeOfDay(e.datetime) = <<20, 30>>
    /\ pc \in {"dedup", "done"} => beitar = Kept("beitar") /\ hapoel = Kept("hapoel")

\* a Beitar fixture emitted with its captured 19:00 and a Hapoel fixture emitted with
\* a captured 01:59 turned into 20:30
C6_Witness ==
    /\ pc = "done"
    /\ \E k \in DOMAIN log :
          /\ log[k].source = "beitar" /\ log[k].kept
          /\ log[k].time_str = Clock19 /\ TimeOfDay(log[k].datetime) = <<19, 0>>
    /\ \E k \in DOMAIN log :
          /\ log[k].source = "hapoel" /\ log[k].kept
          /\ ValidClock(log[k].time_str) /\ ClockHour(log[k].time_str) < 10
          /\ TimeOfDay(log[k].datetime) = <<20, 30>>

\* C7: every fixture either parser emits has a home team and an away team that are
\* not empty.
C7_BothTeamsNamed ==
    /\ \A k \in 1..Len(beitar) : beitar[k].home_team # <<>> /\ beitar[k].away_team # <<>>
    /\ \A k \in 1..Len(hapoel) : hapoel[k].home_team # <<>> /\ hapoel[k].away_team # <<>>

\* C8: an included candidate whose time string is not a well-formed valid HH:MM
\* raises nothing and gets the kickoff 20:30.
C8_InvalidTimeCoerced ==
    \A k \in DOMAIN log :
        ~ValidClock(log[k].time_str) =>
            ~log[k].raised /\ TimeOfDay(log[k].datetime) = <<20, 30>>

\* a line that is no date line, no header or section token and not the section start
CleanLine(l) ==
    ~IsDateLine(l) /\ l \notin (HeaderRow \cup SectionStop \cup FooterStop \cup {UPCOMING})

\* the length of the longest run of at most 4 clean lines that ends right before i
MaximalRun(ls, i) ==
    CHOOSE k \in 0..4 :
        /\ k <= i - 1
        /\ \A t \in 1..k : CleanLine(ls[i - t])
        /\ \A k2 \in (k + 1)..4 : ~(k2 <= i - 1 /\ \A t \in 1..k2 : CleanLine(ls[i - t]))

\* C9: for every date line the scan reaches, the lines collected are the maximal run
\* of at most 4 clean lines right before it, and the fields are that run aligned to
\* the date: last the home team, then the away team, the venue, the time, and the
\* empty string for a slot with no line.
C9_RowFromMaximalRun ==
    \A r \in DOMAIN rows :
        LET i == rows[r].i
            k == MaximalRun(lines, i)
            slot(n) == IF k >= n THEN lines[i - n] ELSE <<>>
        IN  /\ IsDateLine(lines[i])
            /\ rows[r].preceding = SubSeq(lines, i - k, i - 1)
            /\ rows[r].home_team = slot(1)
            /\ rows[r].guest_team = slot(2)
            /\ rows[r].venue = slot(3)
            /\ rows[r].time_str = slot(4)

\* a date line with five clean lines before it, of which the last four are collected
C9_Witness ==
    \E r \in DOMAIN rows :
        /\ Len(rows[r].preceding) = 4
        /\ rows[r].i > 5
        /\ CleanLine(lines[rows[r].i - 5])
        /\ rows[r].home_team # rows[r].guest_team

=============================================================================
